---- MODULE Spec2Model ----
(***************************************************************************)
(* Model of the worker process of okurawave/multi-agent (src/python).      *)
(*                                                                         *)
(* main.py run as a script executes, in this order:                        *)
(*   1. CrewAIConnectMain().run() under asyncio (first main(), line 208):  *)
(*      the loop of IPCHandler.receive_request / handle_request /          *)
(*      send_response over a CrewAIEngine;                                 *)
(*   2. once that loop has ended, SimpleIPCHandler().run() (second main(), *)
(*      line 423): a blocking readline loop with one thread per task.      *)
(*                                                                         *)
(* class CrewAIEngine defines start_task and stop_task twice.  Python      *)
(* binds the last definition (crewai_engine.py 576-629), which is what     *)
(* Spec models.  SpecFirst binds the first definitions (204-237, 374-405), *)
(* the only callers of _execute_crew_task, to examine the pipeline code.   *)
(*                                                                         *)
(* Progress values are written in hundredths: 0.25 is 25, 1.0 is 100, and  *)
(* SimpleIPCHandler's progress 10 is 1000.                                 *)
(***************************************************************************)
EXTENDS Integers, Sequences, FiniteSets, TLC

VARIABLES
    phase,        \* "engine": CrewAIConnectMain.run; "simple": SimpleIPCHandler.run; "exit"
    eof,          \* the host has closed the worker's standard input
    inp,          \* the lines read from standard input so far, in order
    out,          \* the messages printed on standard output so far, in order
    running,      \* CrewAIConnectMain.running
    active_tasks, \* CrewAIEngine.active_tasks (insertion-ordered dict)
    crews,        \* CrewAIEngine.crews (its keys)
    pend,         \* asyncio tasks created by ipc_callback and not yet run
    ran,          \* coroutines that ran in the current event-loop iteration
    execs,        \* the _execute_crew_task coroutines created so far
    is_running,   \* SimpleIPCHandler.is_running
    tasks,        \* SimpleIPCHandler.tasks: key -> reference into objs
    objs,         \* the task dicts SimpleIPCHandler has created
    threads,      \* the execute_task threads started so far
    tool_sets     \* the calls of ToolManager.get_tools_for_agent made so far

vars == <<phase, eof, inp, out, running, active_tasks, crews, pend, ran, execs,
          is_running, tasks, objs, threads, tool_sets>>

engineVars == <<running, active_tasks, crews, pend, ran, execs>>
simpleVars == <<is_running, tasks, objs, threads>>

(***************************************************************************)
(* Bounds and input alphabet.                                              *)
(***************************************************************************)
MaxLines == 3

\* Python's None, and a JSON member that is absent or null.
None == "None"

\* A request line: a JSON object with these members (None: member absent).
Req(id, method, tid, desc) ==
    [kind |-> "req", id |-> id, method |-> method, tid |-> tid, desc |-> desc]

\* A line that is not valid JSON, a JSON value that is no object, a blank line.
BadLine == [kind |-> "bad", id |-> None, method |-> None, tid |-> None, desc |-> None]
NonDictLine == [kind |-> "nondict", id |-> None, method |-> None, tid |-> None, desc |-> None]
BlankLine == [kind |-> "blank", id |-> None, method |-> None, tid |-> None, desc |-> None]

\* The lines the host may send: every method with request id r1, and a second
\* id or an absent id, task id or description on some of them.
Lines ==
    { Req("r1", "start_task", t, "d") : t \in {"t1", "t2", None} }
    \cup { Req("r2", "start_task", "t1", None) }
    \cup { Req("r1", "stop_task", t, None) : t \in {"t1", "t2"} }
    \cup { Req("r1", "get_task_status", "t1", None),
           Req("r1", "list_tasks", None, None),
           Req("r1", "llm_request", None, None),
           Req("r1", "shutdown", None, None),
           Req("r1", "foo", None, None),
           Req("r1", None, None, None) }
    \cup { Req(i, "health_check", None, None) : i \in {"r1", "r2", None} }
    \cup { BadLine, NonDictLine, BlankLine }

\* The lines sent to the engine as first defined: the task methods, and a
\* line with an id and no method, as a Response of the host has.
LinesFirst ==
    { Req("r1", "start_task", t, "d") : t \in {"t1", None} }
    \cup { Req("r2", "stop_task", t, None) : t \in {"t1", "t2"} }
    \cup { Req("r1", "get_task_status", "t1", None),
           Req("r2", "list_tasks", None, None),
           Req("r1", "shutdown", None, None),
           Req("r2", None, None, None),
           BadLine }

(***************************************************************************)
(* Messages on standard output.                                            *)
(* line: the index in inp of the request being handled when the message    *)
(* was printed by the main loop (0: by a background execution);            *)
(* exec: the index of the background execution that emitted it (0: none).  *)
(* result is None or "dict" (a JSON object); rtask, rstatus, rcount and    *)
(* rtasks are the members task_id, status, tasks_count and tasks of it.    *)
(***************************************************************************)
Msg0 ==
    [type |-> None, id |-> None, result |-> None, error |-> None, errarg |-> None,
     rtask |-> None, rstatus |-> None, rcount |-> -1, rtasks |-> <<>>,
     method |-> None, taskId |-> None, progress |-> -1, status |-> None,
     line |-> 0, exec |-> 0]

stdout_print(o, m) == Append(o, m)

(***************************************************************************)
(* Insertion-ordered dicts: a sequence of entries with distinct keys.      *)
(***************************************************************************)
Has(reg, k) == \E i \in 1..Len(reg) : reg[i].key = k
Idx(reg, k) == CHOOSE i \in 1..Len(reg) : reg[i].key = k
Get(reg, k) == reg[Idx(reg, k)]
Put(reg, e) == IF Has(reg, e.key) THEN [reg EXCEPT ![Idx(reg, e.key)] = e] ELSE Append(reg, e)

(***************************************************************************)
(* CrewAIEngine (crewai_engine.py).  A handler returns the dict it         *)
(* returns in the code (result) and the engine state it leaves.            *)
(* An entry of active_tasks: kind "dict" is the plain dict the last        *)
(* start_task stores, kind "TaskProgress" the object the first one stores. *)
(***************************************************************************)
Ok(data) == [success |-> TRUE, data |-> data, error |-> None, errarg |-> None]
\* A slip in Err: the message does not carry its argument.
Err_drops_arg(error, arg) ==
    [success |-> FALSE, data |-> None, error |-> error, errarg |-> None]

Err(error, arg) == [success |-> FALSE, data |-> None, error |-> error, errarg |-> arg]

\* The last definition of start_task: no validation, no executor.
Engine_start_task(reg, params) ==
    [active_tasks |-> Put(reg, [key |-> params.tid, kind |-> "dict", status |-> "running",
                                progress |-> 0, message |-> None]),
     result |-> Ok(None)]

\* A slip in stop_task: an unknown id is registered as stopped.
Engine_stop_task_registers(reg, params) ==
    [active_tasks |-> IF Has(reg, params.tid)
                      THEN [reg EXCEPT ![Idx(reg, params.tid)].status = "stopped"]
                      ELSE Append(reg, [key |-> params.tid, kind |-> "dict",
                                        status |-> "stopped", progress |-> 0,
                                        message |-> None]),
     result |-> Ok(None)]

\* A slip in stop_task: every registered task is stopped.
Engine_stop_task_all(reg, params) ==
    IF Has(reg, params.tid)
    THEN [active_tasks |-> [i \in 1..Len(reg) |-> [reg[i] EXCEPT !.status = "stopped"]],
          result |-> Ok(None)]
    ELSE [active_tasks |-> reg, result |-> Err("not found", params.tid)]

\* The last definition of stop_task.
Engine_stop_task(reg, params) ==
    IF Has(reg, params.tid)
    THEN [active_tasks |-> [reg EXCEPT ![Idx(reg, params.tid)].status = "stopped"],
          result |-> Ok(None)]
    ELSE [active_tasks |-> reg, result |-> Err("not found", params.tid)]

\* A slip in stop_task: the task is deleted along with its crew.
Engine_stop_task_first_deletes(reg, cr, params) ==
    IF Has(reg, params.tid)
    THEN [active_tasks |-> SelectSeq(reg, LAMBDA e : e.key # params.tid),
          crews |-> cr \ {params.tid},
          result |-> Ok(None)]
    ELSE [active_tasks |-> reg, crews |-> cr, result |-> Err("not found", params.tid)]

\* The first definition of stop_task: also drops the task's crew.
Engine_stop_task_first(reg, cr, params) ==
    IF Has(reg, params.tid)
    THEN [active_tasks |-> [reg EXCEPT ![Idx(reg, params.tid)].status = "stopped",
                                       ![Idx(reg, params.tid)].message = "Task stopped by user"],
          crews |-> cr \ {params.tid},
          result |-> Ok(None)]
    ELSE [active_tasks |-> reg, crews |-> cr, result |-> Err("not found", params.tid)]

\* The first definition of start_task: registers a TaskProgress, builds the
\* crew and creates the _execute_crew_task coroutine (spawn).
Engine_start_task_first(reg, cr, params, uuid) ==
    LET task_id == IF params.tid = None THEN uuid ELSE params.tid
    IN  [active_tasks |-> Put(reg, [key |-> task_id, kind |-> "TaskProgress", status |-> "starting",
                                    progress |-> 0, message |-> "Initializing task"]),
         crews |-> cr \cup {task_id},
         spawn |-> task_id,
         result |-> Ok(None)]

\* entry.status on a plain dict raises AttributeError, caught by the handler.
Engine_get_task_status(reg, params) ==
    IF Has(reg, params.tid)
    THEN IF Get(reg, params.tid).kind = "dict"
         THEN Err("AttributeError", "status")
         ELSE Ok(None)
    ELSE Err("not found", params.tid)

\* A slip in list_tasks: the exception is swallowed and success reported.
Engine_list_tasks_swallows(reg) == Ok(None)

Engine_list_tasks(reg) ==
    IF \E i \in 1..Len(reg) : reg[i].kind = "dict"
    THEN Err("AttributeError", "status")
    ELSE Ok(None)

\* handle_llm_request and handle_tool_request: the only results with "data".
Engine_handle_llm_request(params) == Ok("dict")

\* dispose: stop_task for every key, then clear both dicts.
Engine_dispose(reg) == <<>>

(***************************************************************************)
(* CrewAIConnectMain (main.py 37-194).                                     *)
(***************************************************************************)
\* A slip in Main_response: the id is taken from the params.
Main_response_wrong_id(request, result) ==
    [Msg0 EXCEPT !.type = "response",
                 !.id = request.tid,
                 !.result = IF result.success THEN result.data ELSE None,
                 !.error = IF ~result.success THEN result.error ELSE None,
                 !.errarg = IF ~result.success THEN result.errarg ELSE None]

\* The Response handle_request builds from a handler's result (118-124).
Main_response(request, result) ==
    [Msg0 EXCEPT !.type = "response",
                 !.id = request.id,
                 !.result = IF result.success THEN result.data ELSE None,
                 !.error = IF ~result.success THEN result.error ELSE None,
                 !.errarg = IF ~result.success THEN result.errarg ELSE None]

\* handle_request: dispatch on the method name.  first: the engine binds the
\* first definitions of start_task and stop_task.
Main_handle_request(reg, cr, request, first, uuid) ==
    LET method == request.method
        same(res) == [active_tasks |-> reg, crews |-> cr, spawn |-> None,
                      running |-> TRUE, result |-> res]
        h == CASE method = "start_task" ->
                    IF first
                    THEN LET r == Engine_start_task_first(reg, cr, request, uuid)
                         IN  [active_tasks |-> r.active_tasks, crews |-> r.crews,
                              spawn |-> r.spawn, running |-> TRUE, result |-> r.result]
                    ELSE LET r == Engine_start_task(reg, request)
                         IN  [active_tasks |-> r.active_tasks, crews |-> cr,
                              spawn |-> None, running |-> TRUE, result |-> r.result]
               [] method = "stop_task" ->
                    IF first
                    THEN LET r == Engine_stop_task_first(reg, cr, request)
                         IN  [active_tasks |-> r.active_tasks, crews |-> r.crews,
                              spawn |-> None, running |-> TRUE, result |-> r.result]
                    ELSE LET r == Engine_stop_task(reg, request)
                         IN  [active_tasks |-> r.active_tasks, crews |-> cr,
                              spawn |-> None, running |-> TRUE, result |-> r.result]
               [] method = "get_task_status" -> same(Engine_get_task_status(reg, request))
               [] method = "list_tasks" -> same(Engine_list_tasks(reg))
               [] method \in {"llm_request", "tool_request"} ->
                    same(Engine_handle_llm_request(request))
               [] method = "health_check" -> same(Ok(None))
               [] method = "shutdown" ->
                    [active_tasks |-> Engine_dispose(reg), crews |-> {}, spawn |-> None,
                     running |-> FALSE, result |-> Ok(None)]
               [] OTHER -> same(Err("Unknown method", method))
    IN  [active_tasks |-> h.active_tasks, crews |-> h.crews, spawn |-> h.spawn,
         running |-> h.running, response |-> Main_response(request, h.result)]

(***************************************************************************)
(* SimpleIPCHandler (main.py 213-415).                                     *)
(* st is the handler's state: [out, tasks, objs, threads, is_running].     *)
(***************************************************************************)
Simple_notification(method, task_id, progress, status) ==
    [Msg0 EXCEPT !.type = "notification", !.method = method, !.taskId = task_id,
                 !.progress = progress, !.status = status]

\* send_response: "error" if error is truthy, else "result".
\* result is the payload [rtask, rstatus, rcount].
Simple_send_response(request_id, result, error, errarg) ==
    IF error # None
    THEN [Msg0 EXCEPT !.type = "response", !.id = request_id,
                      !.error = error, !.errarg = errarg]
    ELSE [Msg0 EXCEPT !.type = "response", !.id = request_id, !.result = "dict",
                      !.rtask = result.rtask, !.rstatus = result.rstatus,
                      !.rcount = result.rcount]

Payload(rtask, rstatus, rcount) == [rtask |-> rtask, rstatus |-> rstatus, rcount |-> rcount]

\* A slip in handle_start_task: the Response is left to the thread, and no
\* Response is written before the next line is read.
Simple_handle_start_task_defers(st, request_id, params) ==
    LET task_id == params.tid
    IN  IF task_id = None
        THEN [st EXCEPT !.out = stdout_print(st.out,
                  Simple_send_response(request_id, Payload(None, None, -1),
                                       "task_id is required", None))]
        ELSE LET ref == Len(st.objs) + 1
                 task == [id |-> task_id, status |-> "running", progress |-> 0]
             IN  [st EXCEPT !.objs = Append(st.objs, task),
                            !.tasks = Put(st.tasks, [key |-> task_id, ref |-> ref]),
                            !.out = stdout_print(st.out,
                                Simple_notification("task_progress", task_id, 0, "running")),
                            !.threads = Append(st.threads,
                                [task_id |-> task_id, ref |-> 0, pc |-> "start", i |-> 1])]

\* handle_start_task: register, notify progress 0, respond, start the thread.
Simple_handle_start_task(st, request_id, params) ==
    LET task_id == params.tid
    IN  IF task_id = None
        THEN [st EXCEPT !.out = stdout_print(st.out,
                  Simple_send_response(request_id, Payload(None, None, -1),
                                       "task_id is required", None))]
        ELSE LET ref == Len(st.objs) + 1
                 task == [id |-> task_id, status |-> "running", progress |-> 0]
                 o1 == stdout_print(st.out,
                           Simple_notification("task_progress", task_id, 0, "running"))
                 o2 == stdout_print(o1,
                           Simple_send_response(request_id,
                               Payload(task_id, "started", -1), None, None))
             IN  [st EXCEPT !.objs = Append(st.objs, task),
                            !.tasks = Put(st.tasks, [key |-> task_id, ref |-> ref]),
                            !.out = o2,
                            !.threads = Append(st.threads,
                                [task_id |-> task_id, ref |-> 0, pc |-> "start", i |-> 1])]

Simple_handle_health_check(st, request_id) ==
    [st EXCEPT !.out = stdout_print(st.out,
        Simple_send_response(request_id, Payload(None, "healthy", Len(st.tasks)), None, None))]

\* handle_request: a request without id or method is logged and dropped.
Simple_handle_request(st, request) ==
    LET request_id == request.id
        method == request.method
    IN  IF request_id = None \/ method = None
        THEN st
        ELSE CASE method = "start_task" -> Simple_handle_start_task(st, request_id, request)
               [] method = "health_check" -> Simple_handle_health_check(st, request_id)
               [] method = "shutdown" ->
                    [st EXCEPT !.is_running = FALSE,
                               !.out = stdout_print(st.out,
                                   Simple_send_response(request_id,
                                       Payload(None, "shutting_down", -1), None, None))]
               [] OTHER ->
                    [st EXCEPT !.out = stdout_print(st.out,
                        Simple_send_response(request_id, Payload(None, None, -1),
                                             "Unknown method", method))]

\* The progress values of execute_task's loop (main.py 301) and its final
\* progress (main.py 318), in hundredths.
SimpleProgress == <<1000, 3000, 5000, 7000, 9000>>
SimpleDone == 10000

\* The ghost fields of the messages a step appended to the output.
Stamp(old, new, line, exec) ==
    [j \in 1..Len(new) |->
        IF j <= Len(old) THEN new[j] ELSE [new[j] EXCEPT !.line = line, !.exec = exec]]

(***************************************************************************)
(* The pipeline executor (crewai_engine.py 239-372) and ipc_callback       *)
(* (main.py 44-62).  ipc_callback creates an asyncio task that will print  *)
(* the notification and returns success at once: p is the queue of those   *)
(* tasks.  An executor runs one chunk between two suspensions              *)
(* (asyncio.sleep, line 312): stage counts the chunks it has run.          *)
(***************************************************************************)
Roles == <<"Project Planner", "Software Developer", "Quality Assurance Tester", "Code Reviewer">>
NStages == Len(Roles)

\* str(uuid.uuid4()) of the n-th call.
Uuid(n) == <<"u1", "u2", "u3", "u4", "u5", "u6">>[n]

ipc_callback(p, method, task_id, progress, status) ==
    Append(p, [Msg0 EXCEPT !.type = "notification", !.method = method, !.taskId = task_id,
                           !.progress = progress, !.status = status])

send_progress_notification(p, task_id, progress, status) ==
    ipc_callback(p, "task_progress", task_id, progress, status)

\* The progress _execute_crew_task announces before the stages (line 249).
StartProgress == 10

\* A slip in the loop: every iteration runs the first stage.
execute_stage_repeats(p, i) ==
    LET p1 == send_progress_notification(p, Roles[1], (i * 100) \div NStages, "running")
    IN  ipc_callback(p1, "llm_request", None, -1, None)

\* One iteration of the loop of _execute_crew_with_vscode_llm, i in 1..4:
\* the progress notification (its task id is the agent's role), then the LLM
\* call through ipc_callback.
execute_stage(p, i) ==
    LET p1 == send_progress_notification(p, Roles[i], (i * 100) \div NStages, "running")
    IN  ipc_callback(p1, "llm_request", None, -1, None)

\* _execute_crew_task, chunk by chunk.  e: [task_id, stage, stopped_at,
\* failed_at]; stopped_at records the stage e was in when a stop_task for its
\* task was handled, failed_at the stage whose capability call reported
\* failure (-1: none), and both are read by no operation.
execute_crew_task(reg, p, e) ==
    LET tid == e.task_id
    IN  IF e.stage = 0
        THEN [active_tasks |->
                  IF Has(reg, tid)
                  THEN [reg EXCEPT ![Idx(reg, tid)].status = "running",
                                   ![Idx(reg, tid)].message = "Executing crew task"]
                  ELSE reg,
              pend |-> execute_stage(
                           send_progress_notification(p, tid, StartProgress, "starting"), 1)]
        ELSE IF e.stage < NStages
        THEN [active_tasks |-> reg, pend |-> execute_stage(p, e.stage + 1)]
        ELSE [active_tasks |->
                  IF Has(reg, tid)
                  THEN [reg EXCEPT ![Idx(reg, tid)].status = "completed",
                                   ![Idx(reg, tid)].progress = 100,
                                   ![Idx(reg, tid)].message = "Task completed successfully"]
                  ELSE reg,
              pend |-> ipc_callback(p, "task_completed", tid, -1, None)]

(***************************************************************************)
(* The asyncio event loop.  The tasks ipc_callback creates run at the      *)
(* start of the next iteration, in creation order; within one iteration    *)
(* each suspended coroutine (0: the main loop, k: executor k) runs at most *)
(* one chunk.  A coroutine that runs again starts a new iteration.         *)
(***************************************************************************)
Begin(c) ==
    IF c \in ran
    THEN [out |-> out \o pend, pend |-> <<>>, ran |-> {}]
    ELSE [out |-> out, pend |-> pend, ran |-> ran]

End(b, c, p) == IF p = <<>> THEN {} ELSE b.ran \cup {c}

\* The host starts one task at a time: it sends start_task only when no
\* background execution is unfinished.
ExecsIdle == pend = <<>> /\ \A k \in 1..Len(execs) : execs[k].stage > NStages
ThreadsIdle == \A k \in 1..Len(threads) : threads[k].pc = "done"

Init ==
    /\ phase = "engine"
    /\ eof = FALSE
    /\ inp = <<>>
    /\ out = <<>>
    /\ running = TRUE
    /\ active_tasks = <<>>
    /\ crews = {}
    /\ pend = <<>>
    /\ ran = {}
    /\ execs = <<>>
    /\ is_running = TRUE
    /\ tasks = <<>>
    /\ objs = <<>>
    /\ threads = <<>>
    /\ tool_sets = <<>>

\* One pass of the loop of CrewAIConnectMain.run (main.py 167-188) on a line.
Main_chunk(line, first) ==
    /\ phase = "engine"
    /\ running
    /\ ~eof
    /\ Len(inp) < MaxLines
    /\ inp' = Append(inp, line)
    /\ (line.method = "start_task" /\ first) => ExecsIdle
    /\ LET b == Begin(0)
       IN  IF line.kind # "req"
           THEN /\ out' = b.out
                /\ pend' = b.pend
                /\ ran' = End(b, 0, b.pend)
                /\ UNCHANGED <<running, active_tasks, crews, execs>>
           ELSE LET h == Main_handle_request(active_tasks, crews, line, first,
                                             Uuid(Len(execs) + 1))
                IN  /\ out' = Stamp(b.out, stdout_print(b.out, h.response), Len(inp'), 0)
                    /\ pend' = b.pend
                    /\ ran' = End(b, 0, b.pend)
                    /\ running' = h.running
                    /\ active_tasks' = h.active_tasks
                    /\ crews' = h.crews
                    /\ execs' = IF h.spawn # None
                                THEN Append(execs, [task_id |-> h.spawn, stage |-> 0,
                                                    stopped_at |-> -1, failed_at |-> -1])
                                ELSE IF line.method = "stop_task"
                                THEN [k \in 1..Len(execs) |->
                                        IF /\ execs[k].task_id = line.tid
                                           /\ execs[k].stage <= NStages
                                           /\ execs[k].stopped_at = -1
                                        THEN [execs[k] EXCEPT !.stopped_at = execs[k].stage]
                                        ELSE execs[k]]
                                ELSE execs
    /\ UNCHANGED <<tool_sets, phase, eof, simpleVars>>

Main_run(line) == Main_chunk(line, FALSE)

Main_run_first(line) == Main_chunk(line, TRUE)

\* At end of input readline returns "" at once: receive_request returns None
\* and the loop sleeps and reads again (main.py 172-175), for ever.
Main_poll ==
    /\ phase = "engine"
    /\ running
    /\ eof' = TRUE
    /\ UNCHANGED <<tool_sets, phase, inp, out, engineVars, simpleVars>>

\* The event loop runs the tasks ipc_callback created.
Loop_flush ==
    /\ phase = "engine"
    /\ running
    /\ pend # <<>>
    /\ out' = out \o pend
    /\ pend' = <<>>
    /\ ran' = {}
    /\ UNCHANGED <<tool_sets, phase, eof, inp, running, active_tasks, crews, execs, simpleVars>>

\* Executor k runs to its next suspension.
Exec_chunk(k) ==
    /\ phase = "engine"
    /\ running
    /\ execs[k].stage <= NStages
    /\ LET b == Begin(k)
           r == execute_crew_task(active_tasks, b.pend, execs[k])
       IN  /\ out' = b.out
           /\ pend' = Stamp(b.pend, r.pend, 0, k)
           /\ ran' = End(b, k, r.pend)
           /\ active_tasks' = r.active_tasks
    /\ execs' = [execs EXCEPT ![k].stage = @ + 1]
    /\ UNCHANGED <<tool_sets, phase, eof, inp, running, crews, simpleVars>>

\* run() returns after shutdown; asyncio.run cancels what is left of the loop.
Main_return ==
    /\ phase = "engine"
    /\ ~running
    /\ phase' = "exit"
    /\ pend' = <<>>
    /\ ran' = {}
    /\ UNCHANGED <<tool_sets, eof, inp, out, running, active_tasks, crews, execs, simpleVars>>

\* run() returns after shutdown, first main() returns, and the script goes on
\* to the second main(): SimpleIPCHandler().run() prints status_update.
Second_main ==
    /\ phase = "engine"
    /\ ~running
    /\ phase' = "simple"
    /\ pend' = <<>>
    /\ ran' = {}
    /\ out' = stdout_print(out, Simple_notification("status_update", None, -1, "idle"))
    /\ is_running' = TRUE
    /\ tasks' = <<>>
    /\ UNCHANGED <<tool_sets, eof, inp, running, active_tasks, crews, execs, objs, threads>>

\* One pass of the loop of SimpleIPCHandler.run (main.py 390-407) on a line.
Simple_step(line) ==
    /\ phase = "simple"
    /\ is_running
    /\ ~eof
    /\ Len(inp) < MaxLines
    /\ inp' = Append(inp, line)
    /\ IF line.kind # "req"
       THEN UNCHANGED <<out, simpleVars>>
       ELSE LET st == [out |-> out, tasks |-> tasks, objs |-> objs,
                       threads |-> threads, is_running |-> is_running]
                r == Simple_handle_request(st, line)
            IN  /\ out' = Stamp(out, r.out, Len(inp'), 0)
                /\ tasks' = r.tasks
                /\ objs' = r.objs
                /\ threads' = r.threads
                /\ is_running' = r.is_running
    /\ UNCHANGED <<tool_sets, phase, eof, engineVars>>

\* The loop's pass when the host starts one task at a time.
Simple_run(line) ==
    /\ (line.method = "start_task") => ThreadsIdle
    /\ Simple_step(line)

\* readline returns "" (end of input): the loop ends, main() returns, the
\* process exits and its daemon threads with it.
Simple_eof ==
    /\ phase = "simple"
    /\ is_running
    /\ eof' = TRUE
    /\ phase' = "exit"
    /\ UNCHANGED <<tool_sets, inp, out, engineVars, simpleVars>>

\* is_running is False after a shutdown request: the loop ends likewise.
Simple_exit ==
    /\ phase = "simple"
    /\ ~is_running
    /\ phase' = "exit"
    /\ UNCHANGED <<tool_sets, eof, inp, out, engineVars, simpleVars>>

\* execute_task, thread k: task = self.tasks.get(task_id).
Thread_start(k) ==
    /\ phase = "simple"
    /\ threads[k].pc = "start"
    /\ threads' = [threads EXCEPT ![k].ref = Get(tasks, threads[k].task_id).ref,
                                  ![k].pc = "check"]
    /\ UNCHANGED <<tool_sets, phase, eof, inp, out, engineVars, is_running, tasks, objs>>

\* The loop's test of task["status"], then time.sleep(1).
Thread_check(k) ==
    /\ phase = "simple"
    /\ threads[k].pc = "check"
    /\ threads' = [threads EXCEPT ![k].pc =
                       IF objs[threads[k].ref].status # "running" THEN "final" ELSE "sleep"]
    /\ UNCHANGED <<tool_sets, phase, eof, inp, out, engineVars, is_running, tasks, objs>>

\* After the sleep: store the progress and print task_progress.
Thread_update(k) ==
    /\ phase = "simple"
    /\ threads[k].pc = "sleep"
    /\ LET t == threads[k]
           progress == SimpleProgress[t.i]
       IN  /\ objs' = [objs EXCEPT ![t.ref].progress = progress]
           /\ out' = Stamp(out, stdout_print(out,
                         Simple_notification("task_progress", t.task_id, progress, "running")),
                         0, k)
           /\ threads' = [threads EXCEPT ![k].i = t.i + 1,
                             ![k].pc = IF t.i = Len(SimpleProgress) THEN "final" ELSE "check"]
    /\ UNCHANGED <<tool_sets, phase, eof, inp, engineVars, is_running, tasks>>

\* A slip in execute_task: the completion is followed by a failure report.
Thread_final_both(k) ==
    /\ phase = "simple"
    /\ threads[k].pc = "final"
    /\ LET t == threads[k]
       IN  IF objs[t.ref].status = "running"
           THEN /\ objs' = [objs EXCEPT ![t.ref].status = "completed",
                                        ![t.ref].progress = SimpleDone]
                /\ out' = Stamp(out,
                              stdout_print(
                                  stdout_print(out,
                                      Simple_notification("task_completed", t.task_id, -1, None)),
                                  Simple_notification("task_failed", t.task_id, -1, None)),
                              0, k)
           ELSE UNCHANGED <<objs, out>>
    /\ threads' = [threads EXCEPT ![k].pc = "done"]
    /\ UNCHANGED <<tool_sets, phase, eof, inp, engineVars, is_running, tasks>>

\* After the loop: complete the task if it is still running.
Thread_final(k) ==
    /\ phase = "simple"
    /\ threads[k].pc = "final"
    /\ LET t == threads[k]
       IN  IF objs[t.ref].status = "running"
           THEN /\ objs' = [objs EXCEPT ![t.ref].status = "completed",
                                        ![t.ref].progress = SimpleDone]
                /\ out' = Stamp(out, stdout_print(out,
                              Simple_notification("task_completed", t.task_id, -1, None)),
                              0, k)
           ELSE UNCHANGED <<objs, out>>
    /\ threads' = [threads EXCEPT ![k].pc = "done"]
    /\ UNCHANGED <<tool_sets, phase, eof, inp, engineVars, is_running, tasks>>

Next ==
    \/ \E line \in Lines : Main_run(line)
    \/ Main_poll
    \/ Second_main
    \/ \E line \in Lines : Simple_run(line)
    \/ Simple_eof
    \/ Simple_exit
    \/ \E k \in 1..Len(threads) : Thread_start(k)
    \/ \E k \in 1..Len(threads) : Thread_check(k)
    \/ \E k \in 1..Len(threads) : Thread_update(k)
    \/ \E k \in 1..Len(threads) : Thread_final(k)

Spec == Init /\ [][Next]_vars

NextFirst ==
    \/ \E line \in LinesFirst : Main_run_first(line)
    \/ Loop_flush
    \/ \E k \in 1..Len(execs) : Exec_chunk(k)
    \/ Main_return

SpecFirst == Init /\ [][NextFirst]_vars

\* What the scheduling guarantees: the main loops and the event loop go on
\* while they can, and a started thread or coroutine is run.  Nothing obliges
\* the host to send a line or to close the input.
ThreadStep(k) ==
    /\ k \in 1..Len(threads)
    /\ (Thread_start(k) \/ Thread_check(k) \/ Thread_update(k) \/ Thread_final(k))

ExecStep(k) == k \in 1..Len(execs) /\ Exec_chunk(k)

Fairness ==
    /\ WF_vars(Main_poll)
    /\ WF_vars(Second_main)
    /\ WF_vars(Simple_exit)
    /\ \A k \in 1..MaxLines : WF_vars(ThreadStep(k))

FairnessFirst ==
    /\ WF_vars(Loop_flush)
    /\ WF_vars(Main_return)
    /\ \A k \in 1..MaxLines : WF_vars(ExecStep(k))

(***************************************************************************)
(* SimpleIPCHandler with a host that starts a task while the one before it *)
(* is still executing, and with print(message, flush=True) of a thread as  *)
(* the two writes it makes: the message, then the newline.  Here out holds *)
(* the messages in the order they were written, and a thread whose pc is   *)
(* "nl_..." has written its message and not yet its newline.               *)
(***************************************************************************)
LinesConc ==
    { Req("r1", "start_task", "t1", "d"),
      Req("r2", "start_task", "t1", "d"),
      Req("r2", "health_check", None, None),
      Req("r2", "shutdown", None, None) }

\* The host starts a task when at most the latest execution is unfinished.
ThreadsButLastIdle == \A k \in 1..(Len(threads) - 1) : threads[k].pc = "done"

Conc_run(line) ==
    /\ (line.method = "start_task") => ThreadsButLastIdle
    /\ Simple_step(line)

\* Thread k after the sleep: store the progress, write the message.
Conc_update(k) ==
    /\ phase = "simple"
    /\ threads[k].pc = "sleep"
    /\ LET t == threads[k]
           progress == SimpleProgress[t.i]
       IN  /\ objs' = [objs EXCEPT ![t.ref].progress = progress]
           /\ out' = Stamp(out, stdout_print(out,
                         Simple_notification("task_progress", t.task_id, progress, "running")),
                         0, k)
           /\ threads' = [threads EXCEPT ![k].i = t.i + 1,
                             ![k].pc = IF t.i = Len(SimpleProgress) THEN "nl_final"
                                                                    ELSE "nl_check"]
    /\ UNCHANGED <<tool_sets, phase, eof, inp, engineVars, is_running, tasks>>

\* Thread k after the loop: complete the task, write the message.
Conc_final(k) ==
    /\ phase = "simple"
    /\ threads[k].pc = "final"
    /\ LET t == threads[k]
       IN  IF objs[t.ref].status = "running"
           THEN /\ objs' = [objs EXCEPT ![t.ref].status = "completed",
                                        ![t.ref].progress = SimpleDone]
                /\ out' = Stamp(out, stdout_print(out,
                              Simple_notification("task_completed", t.task_id, -1, None)),
                              0, k)
                /\ threads' = [threads EXCEPT ![k].pc = "nl_done"]
           ELSE /\ UNCHANGED <<objs, out>>
                /\ threads' = [threads EXCEPT ![k].pc = "done"]
    /\ UNCHANGED <<tool_sets, phase, eof, inp, engineVars, is_running, tasks>>

\* Thread k writes the newline that ends its message.
Conc_newline(k) ==
    /\ phase = "simple"
    /\ threads[k].pc \in {"nl_check", "nl_final", "nl_done"}
    /\ threads' = [threads EXCEPT ![k].pc =
                       CASE threads[k].pc = "nl_check" -> "check"
                         [] threads[k].pc = "nl_final" -> "final"
                         [] OTHER -> "done"]
    /\ UNCHANGED <<tool_sets, phase, eof, inp, out, engineVars, is_running, tasks, objs>>

NextConc ==
    \/ \E line \in {Req("r1", "shutdown", None, None)} : Main_run(line)
    \/ Second_main
    \/ \E line \in LinesConc : Conc_run(line)
    \/ Simple_exit
    \/ \E k \in 1..Len(threads) : Thread_start(k)
    \/ \E k \in 1..Len(threads) : Thread_check(k)
    \/ \E k \in 1..Len(threads) : Conc_update(k)
    \/ \E k \in 1..Len(threads) : Conc_final(k)
    \/ \E k \in 1..Len(threads) : Conc_newline(k)

SpecConc == Init /\ [][NextConc]_vars

(***************************************************************************)
(* The pipeline with a capability call that reports failure.  The call is  *)
(* VSCodeLLMWrapper.call (crewai_engine.py 43-60) over ipc_callback        *)
(* (main.py 44-62): when ipc_callback fails, no notification task is       *)
(* created and it returns success False; call logs that and returns the    *)
(* string "Error: Failed to get response from LLM" as the stage's result.  *)
(* call catches every exception, so a stage never raises.                  *)
(***************************************************************************)
LinesFail ==
    { Req("r1", "start_task", "t1", "d"),
      Req("r2", "get_task_status", "t1", None),
      Req("r2", "stop_task", "t2", None),
      Req("r1", "shutdown", None, None) }

\* ipc_callback when asyncio.create_task raises: p without the task that
\* ipc_callback would have created last.
ipc_callback_failed(p) == SubSeq(p, 1, Len(p) - 1)

\* Executor k runs a stage whose capability call reports failure.
Exec_chunk_failed(k) ==
    /\ phase = "engine"
    /\ running
    /\ execs[k].stage < NStages
    /\ execs[k].failed_at = -1
    /\ LET b == Begin(k)
           r == execute_crew_task(active_tasks, b.pend, execs[k])
           p == ipc_callback_failed(r.pend)
       IN  /\ out' = b.out
           /\ pend' = Stamp(b.pend, p, 0, k)
           /\ ran' = End(b, k, p)
           /\ active_tasks' = r.active_tasks
    /\ execs' = [execs EXCEPT ![k].stage = @ + 1, ![k].failed_at = execs[k].stage + 1]
    /\ UNCHANGED <<tool_sets, phase, eof, inp, running, crews, simpleVars>>

NextFail ==
    \/ \E line \in LinesFail : Main_run_first(line)
    \/ Loop_flush
    \/ \E k \in 1..Len(execs) : Exec_chunk(k)
    \/ \E k \in 1..Len(execs) : Exec_chunk_failed(k)
    \/ Main_return

SpecFail == Init /\ [][NextFail]_vars

(***************************************************************************)
(* SimpleIPCHandler when thread.start() raises (RuntimeError: can't start  *)
(* new thread).  handle_start_task has registered the task and printed the *)
(* notification and the Response (main.py 274-285) when                    *)
(* simulate_task_execution raises at line 340; the exception reaches the   *)
(* except branch of handle_request (373-376), which sends a Response with  *)
(* error str(e).                                                           *)
(***************************************************************************)
Simple_run_start_failed(line) ==
    /\ phase = "simple"
    /\ is_running
    /\ ~eof
    /\ Len(inp) < MaxLines
    /\ line.kind = "req" /\ line.method = "start_task"
    /\ line.id # None /\ line.tid # None
    /\ ThreadsIdle
    /\ inp' = Append(inp, line)
    /\ LET st == [out |-> out, tasks |-> tasks, objs |-> objs,
                  threads |-> threads, is_running |-> is_running]
           r == Simple_handle_start_task(st, line.id, line)
           o == stdout_print(r.out,
                    Simple_send_response(line.id, Payload(None, None, -1),
                                         "RuntimeError", None))
       IN  /\ out' = Stamp(out, o, Len(inp'), 0)
           /\ tasks' = r.tasks
           /\ objs' = r.objs
    /\ UNCHANGED <<tool_sets, phase, eof, engineVars, is_running, threads>>

NextThreadFail ==
    \/ \E line \in {Req("r1", "shutdown", None, None)} : Main_run(line)
    \/ Second_main
    \/ \E line \in LinesConc : Simple_run(line)
    \/ \E line \in LinesConc : Simple_run_start_failed(line)
    \/ Simple_exit
    \/ \E k \in 1..Len(threads) : Thread_start(k)
    \/ \E k \in 1..Len(threads) : Thread_check(k)
    \/ \E k \in 1..Len(threads) : Thread_update(k)
    \/ \E k \in 1..Len(threads) : Thread_final(k)

SpecThreadFail == Init /\ [][NextThreadFail]_vars

(***************************************************************************)
(* ToolManager (tools/tool_manager.py).  self.tools is filled once by      *)
(* _initialize_tools and never changed afterwards; a tool is modelled by   *)
(* the key it is stored under.                                             *)
(***************************************************************************)
MaxCalls == 3

\* The keys _initialize_tools stores.
Registered ==
    {"file_operations", "project_analysis", "command_execution", "terminal",
     "workspace_analysis", "dependency_analysis", "code_analysis", "code_generation"}

\* The roles a caller may pass: the four agent roles and one other string.
AgentRoles == {Roles[i] : i \in 1..Len(Roles)} \cup {"Other"}

\* The keys get_tools_for_agent looks up for a role, in the order of the list
\* display of its branch.
ToolKeys(agent_role) ==
    CASE agent_role = "Project Planner" ->
            <<"project_analysis", "workspace_analysis", "dependency_analysis",
              "configuration_analysis", "project_metrics", "environment_analysis",
              "test_discovery">>
      [] agent_role = "Software Developer" ->
            <<"file_operations", "directory_navigation", "code_generation",
              "code_formatter", "package_manager", "git_operations",
              "command_execution", "terminal">>
      [] agent_role = "Quality Assurance Tester" ->
            <<"test_generator", "test_discovery", "command_execution", "terminal",
              "file_operations", "code_analysis", "process_monitor">>
      [] agent_role = "Code Reviewer" ->
            <<"code_analysis", "code_linter", "refactoring", "documentation_generator",
              "file_operations", "directory_navigation", "git_operations">>
      [] OTHER ->
            <<"file_operations", "directory_navigation", "command_execution",
              "project_analysis">>

\* get_tools_for_agent: self.tools[key] raises KeyError for a key that is not
\* stored; the except branch logs it and returns [].  raised: an exception
\* leaves the method.
get_tools_for_agent(tools, agent_role) ==
    LET keys == ToolKeys(agent_role)
    IN  IF \A i \in 1..Len(keys) : keys[i] \in tools
        THEN [tools |-> keys, raised |-> FALSE]
        ELSE [tools |-> <<>>, raised |-> FALSE]

\* A caller asks for the tool set of a role.
Get_tools(agent_role) ==
    /\ Len(tool_sets) < MaxCalls
    /\ tool_sets' = Append(tool_sets,
                        [agent_role |-> agent_role,
                         returned |-> get_tools_for_agent(Registered, agent_role)])
    /\ UNCHANGED <<phase, eof, inp, out, engineVars, simpleVars>>

NextTools == \E agent_role \in AgentRoles : Get_tools(agent_role)

SpecTools == Init /\ [][NextTools]_vars

SpecFair == Spec /\ Fairness

SpecFirstFair == SpecFirst /\ FairnessFirst

(***************************************************************************)
(* Properties.                                                             *)
(***************************************************************************)
IsResponse(m) == m.type = "response"
IsNotification(m) == m.type = "notification"
Responses == {j \in 1..Len(out) : IsResponse(out[j])}
\* The responses printed while line n was being handled.
ResponsesTo(n) == {j \in Responses : out[j].line = n}
\* The request line a response answers.
RequestOf(j) == inp[out[j].line]
\* Response j has just been printed: nothing was read after its request.
JustAnswered(j) == IsResponse(out[j]) /\ out[j].line = Len(inp)

\* C1: every Response printed carries the id of the request line that was
\* being handled when it was printed, whatever notifications surround it.
C1_ResponseCarriesRequestId ==
    \A j \in Responses :
        /\ out[j].line \in 1..Len(inp)
        /\ out[j].id = RequestOf(j).id

\* C1 witness: a Response with id r2 printed after a notification of a
\* background thread.
C1_Witness ==
    \E i, j \in 1..Len(out) :
        /\ i < j
        /\ IsNotification(out[i]) /\ out[i].exec # 0
        /\ IsResponse(out[j]) /\ out[j].id = "r2"

\* C2 (as claimed): every Response has exactly one of result and error.
C2_ExactlyOneOfResultError ==
    \A j \in Responses : (out[j].result # None) # (out[j].error # None)

\* A line the decode-failure policy drops: not JSON, not an object, blank,
\* or a request without method.
Undecodable(line) == line.kind # "req" \/ line.method = None
\* A request line with an id and a method.
WellFormed(line) == line.kind = "req" /\ line.id # None /\ line.method # None

\* C3 (as claimed): an undecodable line gets no Response, and the
\* well-formed line read right after it is answered.
C3_UndecodableDropped ==
    \A n \in 1..Len(inp) :
        Undecodable(inp[n]) =>
            /\ ResponsesTo(n) = {}
            /\ (n < Len(inp) /\ WellFormed(inp[n + 1])) => ResponsesTo(n + 1) # {}

IsStart(line) == line.kind = "req" /\ line.method = "start_task"
\* Line n is a valid start_task (id, task id, description) and no other
\* start_task line read names its task id.
ValidFreshStart(n) ==
    /\ IsStart(inp[n]) /\ inp[n].id # None /\ inp[n].tid # None /\ inp[n].desc # None
    /\ \A m \in 1..Len(inp) : (m # n /\ IsStart(inp[m])) => inp[m].tid # inp[n].tid
\* The notifications printed for task t.
NotifsFor(t) == {i \in 1..Len(out) : IsNotification(out[i]) /\ out[i].taskId = t}
IsTerminal(m) == IsNotification(m) /\ m.method \in {"task_completed", "task_failed"}

\* C4 (as claimed): once the main loop has gone on to a later line, a valid
\* start_task with a fresh id has exactly one task_progress notification with
\* progress 0.0, and no notification for the task precedes it.
C4_InitialProgressOnce ==
    \A n \in 1..Len(inp) :
        (ValidFreshStart(n) /\ n < Len(inp)) =>
            LET zero == {i \in NotifsFor(inp[n].tid) :
                            out[i].method = "task_progress" /\ out[i].progress = 0}
            IN  /\ Cardinality(zero) = 1
                /\ \A z \in zero : \A i \in NotifsFor(inp[n].tid) : z <= i

\* The progress values of the task_progress notifications printed for t.
ProgressSeq(t) ==
    LET sel == SelectSeq(out, LAMBDA m : IsNotification(m) /\ m.method = "task_progress"
                                         /\ m.taskId = t)
    IN  [i \in 1..Len(sel) |-> sel[i].progress]
\* Executor k is the only execution of its task, was not stopped, and its
\* task_completed has been printed.
CompletedAlone(k) ==
    /\ execs[k].stopped_at = -1
    /\ \A l \in 1..Len(execs) : l # k => execs[l].task_id # execs[k].task_id
    /\ \E i \in 1..Len(out) : out[i].exec = k /\ out[i].method = "task_completed"

\* C5 (as claimed): a task whose four stages all succeeded has the progress
\* sequence 0.0, 0.25, 0.50, 0.75, 1.00, then one task_completed, and no
\* task_failed.
C5_ProgressSequence ==
    \A k \in 1..Len(execs) :
        CompletedAlone(k) =>
            LET t == execs[k].task_id
            IN  /\ ProgressSeq(t) = <<0, 25, 50, 75, 100>>
                /\ Cardinality({i \in NotifsFor(t) : out[i].method = "task_completed"}) = 1
                /\ \A i \in NotifsFor(t) : out[i].method # "task_failed"

\* C6 (as claimed): a stop_task handled while stage 2 of 4 is executing keeps
\* stage 3 from starting, no terminal notification is emitted for the task,
\* and its registry status stays stopped.
C6_StopDuringStageTwo ==
    \A k \in 1..Len(execs) :
        execs[k].stopped_at = 2 =>
            /\ execs[k].stage = 2
            /\ \A i \in 1..Len(out) : out[i].exec = k => ~IsTerminal(out[i])
            /\ \A i \in 1..Len(pend) : pend[i].exec = k => ~IsTerminal(pend[i])
            /\ Has(active_tasks, execs[k].task_id)
                   => Get(active_tasks, execs[k].task_id).status = "stopped"

\* The keys of the registry of the handler that is running.
RegistryKeys ==
    IF phase = "engine"
    THEN {active_tasks[i].key : i \in 1..Len(active_tasks)}
    ELSE {tasks[i].key : i \in 1..Len(tasks)}

\* C7 (as claimed): start_task with a description and no task_id succeeds,
\* returns a generated id, and the task is registered under that id, not
\* under None.
C7_GeneratedIdReturned ==
    \A j \in Responses :
        (/\ JustAnswered(j)
         /\ IsStart(RequestOf(j))
         /\ RequestOf(j).tid = None
         /\ RequestOf(j).desc # None) =>
            /\ out[j].error = None
            /\ out[j].rtask # None
            /\ out[j].rtask \in RegistryKeys
            /\ None \notin RegistryKeys

\* C8: a stop_task for an id that is not in the registry is answered with a
\* not-found error for that id, changes nothing in the registry, and adds no
\* other message to the output.
C8_StopUnknownNotFound ==
    [][\A line \in Lines :
          (/\ phase = "engine"
           /\ inp' = Append(inp, line)
           /\ line.kind = "req"
           /\ line.method = "stop_task"
           /\ ~Has(active_tasks, line.tid)) =>
              /\ active_tasks' = active_tasks
              /\ pend' = pend
              /\ Len(out') = Len(out) + 1
              /\ SubSeq(out', 1, Len(out)) = out
              /\ LET r == out'[Len(out')]
                 IN  /\ IsResponse(r)
                     /\ r.id = line.id
                     /\ r.result = None
                     /\ r.error = "not found"
                     /\ r.errarg = line.tid]_vars

\* C8 witness: a not-found Response was printed while another task is
\* registered.
C8_Witness ==
    /\ phase = "engine"
    /\ Len(out) > 0
    /\ JustAnswered(Len(out))
    /\ RequestOf(Len(out)).method = "stop_task"
    /\ out[Len(out)].error = "not found"
    /\ Len(active_tasks) > 0

\* C9 (as claimed): list_tasks succeeds and returns one entry per registered
\* task, in registration order, with the status each has in the registry.
C9_ListTasksEntries ==
    \A j \in Responses :
        (/\ JustAnswered(j)
         /\ phase = "engine"
         /\ RequestOf(j).method = "list_tasks") =>
            /\ out[j].error = None
            /\ out[j].result # None
            /\ out[j].rtasks = [i \in 1..Len(active_tasks) |->
                                   <<active_tasks[i].key, active_tasks[i].status>>]

\* C10 (as claimed): a well-formed start_task is answered at once with
\* {task_id, status: "started"}, before its pipeline has ended, and a
\* background execution for the task exists from then on.
C10_StartAnsweredAtOnce ==
    \A j \in Responses :
        (/\ IsStart(RequestOf(j))
         /\ WellFormed(RequestOf(j))
         /\ RequestOf(j).tid # None) =>
            LET t == RequestOf(j).tid
            IN  /\ out[j].error = None
                /\ out[j].rtask = t
                /\ out[j].rstatus = "started"
                /\ \A i \in NotifsFor(t) : (i < j /\ out[i].line = out[j].line)
                                              => ~IsTerminal(out[i])
                /\ \/ \E k \in 1..Len(threads) : threads[k].task_id = t
                   \/ \E k \in 1..Len(execs) : execs[k].task_id = t

Terminal == {"completed", "failed", "stopped"}
\* The step reads a start_task line that names task id t.
Reregisters(t) ==
    /\ Len(inp') = Len(inp) + 1
    /\ IsStart(inp'[Len(inp')])
    /\ inp'[Len(inp')].tid = t

\* C11 (as claimed): a registry entry whose status is terminal keeps that
\* status in every step that does not re-register its id by a start_task.
C11_TerminalOnce ==
    [][\A i \in 1..Len(active_tasks) :
          (/\ active_tasks[i].status \in Terminal
           /\ i <= Len(active_tasks')
           /\ ~Reregisters(active_tasks[i].key)) =>
              active_tasks'[i].status = active_tasks[i].status]_vars

\* The status of task t in each handler's registry (None: not registered).
EngineStatus(t) == IF Has(active_tasks, t) THEN Get(active_tasks, t).status ELSE None
SimpleStatus(t) == IF Has(tasks, t) THEN objs[Get(tasks, t).ref].status ELSE None

\* C12 (as claimed): a task that is registered with a status that is not
\* terminal eventually has a terminal status (or its process has shut down).
C12_EventuallyTerminal ==
    \A t \in {"t1", "t2"} :
        /\ (phase = "engine" /\ EngineStatus(t) \in {"starting", "running"})
               ~> (EngineStatus(t) \in Terminal \/ ~running)
        /\ (phase = "simple" /\ SimpleStatus(t) \in {"starting", "running"})
               ~> (SimpleStatus(t) \in Terminal \/ phase = "exit")

\* The registry of the handler that is running, as <<key, status, progress>>.
RegistryView ==
    IF phase = "engine"
    THEN [i \in 1..Len(active_tasks) |->
            <<active_tasks[i].key, active_tasks[i].status, active_tasks[i].progress>>]
    ELSE [i \in 1..Len(tasks) |->
            <<tasks[i].key, objs[tasks[i].ref].status, objs[tasks[i].ref].progress>>]
\* The status of task t in the registry of the handler that is running.
StatusOf(t) == IF phase = "engine" THEN EngineStatus(t) ELSE SimpleStatus(t)

\* C13 (as claimed): a start_task for an id that is registered with a status
\* that is not terminal is answered with an error Response and leaves the
\* registry as it was.
C13_DuplicateStartRejected ==
    [][\A line \in Lines :
          (/\ inp' = Append(inp, line)
           /\ IsStart(line)
           /\ line.id # None
           /\ line.tid # None
           /\ StatusOf(line.tid) \in {"starting", "running"}) =>
              /\ RegistryView' = RegistryView
              /\ Len(out') > Len(out)
              /\ IsResponse(out'[Len(out')])
              /\ out'[Len(out')].error # None]_vars

\* Thread k is executing: started and not yet at its end.
ThreadActive(k) == threads[k].pc # "done"

\* C14 (as claimed): no two background executions of one task id are active
\* at once.
C14_AtMostOneExecutor ==
    \A k, l \in 1..Len(threads) :
        (k # l /\ threads[k].task_id = threads[l].task_id)
            => ~(ThreadActive(k) /\ ThreadActive(l))

\* Thread k has written a message and not yet the newline that ends it.
LineOpen(k) == threads[k].pc \in {"nl_check", "nl_final", "nl_done"}

\* C16 (as claimed): while a writer is between its message and its newline,
\* no other writer's message reaches the output: the message last written is
\* that writer's own.
C16_AtomicLines ==
    \A k \in 1..Len(threads) :
        LineOpen(k) => out[Len(out)].exec = k

\* The notifications executor k has emitted, printed or still queued.
EmittedBy(k, method) ==
    Cardinality({i \in 1..Len(out) : out[i].exec = k /\ out[i].method = method})
    + Cardinality({i \in 1..Len(pend) : pend[i].exec = k /\ pend[i].method = method})

\* C15 (as claimed): once the capability call of a stage of executor k has
\* reported failure, k runs no later stage, the task's status is failed,
\* k has emitted exactly one task_failed and no task_completed.
C15_StageFailureStops ==
    \A k \in 1..Len(execs) :
        (execs[k].failed_at # -1 /\ running) =>
            /\ execs[k].stage = execs[k].failed_at
            /\ EngineStatus(execs[k].task_id) = "failed"
            /\ EmittedBy(k, "task_failed") = 1
            /\ EmittedBy(k, "task_completed") = 0

\* C17 (as claimed): a shutdown request is answered with status
\* shutting_down under its id, and no line is read after it.
C17_ShutdownStopsReading ==
    \A n \in 1..Len(inp) :
        (WellFormed(inp[n]) /\ inp[n].method = "shutdown") =>
            /\ n = Len(inp)
            /\ \E j \in ResponsesTo(n) :
                   out[j].id = inp[n].id /\ out[j].rstatus = "shutting_down"

\* C18 (as claimed): once the input has reached its end, the process
\* eventually exits.
C18_EofTerminates == eof ~> (phase = "exit")

\* The method names of the protocol.
Recognized ==
    {"start_task", "stop_task", "get_task_status", "list_tasks", "llm_request",
     "tool_request", "health_check", "shutdown"}

\* C19: a request with an id whose method is none of the protocol's is
\* answered, in the step that reads it, with one Response under its id whose
\* error is "Unknown method: <name>" for that name, and the registry and the
\* queued notifications stay as they were.
C19_UnknownMethod ==
    [][\A line \in Lines :
          (/\ inp' = Append(inp, line)
           /\ WellFormed(line)
           /\ line.method \notin Recognized) =>
              /\ RegistryView' = RegistryView
              /\ pend' = pend
              /\ Len(out') = Len(out) + 1
              /\ SubSeq(out', 1, Len(out)) = out
              /\ LET r == out'[Len(out')]
                 IN  /\ IsResponse(r)
                     /\ r.id = line.id
                     /\ r.result = None
                     /\ r.error = "Unknown method"
                     /\ r.errarg = line.method]_vars

\* C19 witness: SimpleIPCHandler has just answered "Unknown method: foo"
\* while a task is registered.
C19_Witness ==
    /\ phase = "simple"
    /\ Len(out) > 0
    /\ JustAnswered(Len(out))
    /\ out[Len(out)].error = "Unknown method"
    /\ out[Len(out)].errarg = "foo"
    /\ Len(RegistryView) > 0

\* C20 (as claimed): a start_task without task_id or without description is
\* answered, in the step that reads it, with one error Response and nothing
\* else, and the registry stays as it was.
C20_MissingFieldRejected ==
    [][\A line \in Lines :
          (/\ inp' = Append(inp, line)
           /\ IsStart(line)
           /\ line.id # None
           /\ (line.tid = None \/ line.desc = None)) =>
              /\ RegistryView' = RegistryView
              /\ pend' = pend
              /\ Len(out') = Len(out) + 1
              /\ IsResponse(out'[Len(out')])
              /\ out'[Len(out')].error # None]_vars

\* Handling this line raises inside the engine: entry.status on a plain dict
\* (get_task_status of a registered id, list_tasks of a registry with one).
HandlerRaises(line) ==
    /\ phase = "engine"
    /\ line.kind = "req"
    /\ \/ /\ line.method = "get_task_status"
          /\ Has(active_tasks, line.tid)
          /\ Get(active_tasks, line.tid).kind = "dict"
       \/ /\ line.method = "list_tasks"
          /\ \E i \in 1..Len(active_tasks) : active_tasks[i].kind = "dict"
IsShutdown(line) == line.kind = "req" /\ line.method = "shutdown"

\* C21: the step that reads a request whose handling raises prints one error
\* Response with the request's id and a message, and leaves the loop
\* running; every error Response carries the id of the request just read; a
\* loop stops running only in the step that reads a shutdown request, and
\* is left only once it has stopped running or the input has ended.
C21_ErrorsAreLocal ==
    [][/\ \A line \in Lines :
            (inp' = Append(inp, line)) =>
                /\ HandlerRaises(line) =>
                       /\ Len(out') = Len(out) + 1
                       /\ IsResponse(out'[Len(out')])
                       /\ out'[Len(out')].id = line.id
                       /\ out'[Len(out')].error \notin {None, ""}
                       /\ out'[Len(out')].result = None
                /\ (Len(out') > Len(out) /\ IsResponse(out'[Len(out')])
                        /\ out'[Len(out')].error # None)
                       => out'[Len(out')].id = line.id
                /\ ~IsShutdown(line) =>
                       /\ phase' = phase
                       /\ running' = running
                       /\ is_running' = is_running
       /\ (running' # running \/ is_running' # is_running)
              => (Len(inp') = Len(inp) + 1 /\ IsShutdown(inp'[Len(inp')]))
       /\ (phase = "engine" /\ phase' # "engine") => ~running
       /\ (phase = "simple" /\ phase' # "simple") => (~is_running \/ eof')]_vars

\* C21 witness: an error Response for a raising handler has been printed and
\* a later request has been answered by the same loop.
C21_Witness ==
    /\ phase = "engine"
    /\ running
    /\ \E j \in Responses :
           /\ out[j].error = "AttributeError"
           /\ out[j].line < Len(inp)
           /\ ResponsesTo(Len(inp)) # {}

\* C22 (as claimed): every request read that has an id and a method has
\* exactly one Response.
C22_ExactlyOneResponse ==
    \A n \in 1..Len(inp) :
        WellFormed(inp[n]) => Cardinality(ResponsesTo(n)) = 1

\* C23 (as claimed): the step that reads a get_task_status request prints a
\* Response under its id: for a registered id a result with the status the
\* task has in the registry, for any other id a not-found error.
C23_GetTaskStatus ==
    [][\A line \in Lines :
          (/\ inp' = Append(inp, line)
           /\ line.kind = "req"
           /\ line.id # None
           /\ line.method = "get_task_status") =>
              /\ Len(out') = Len(out) + 1
              /\ LET r == out'[Len(out')]
                 IN  /\ IsResponse(r)
                     /\ r.id = line.id
                     /\ IF StatusOf(line.tid) # None
                        THEN /\ r.error = None
                             /\ r.result # None
                             /\ r.rstatus = StatusOf(line.tid)
                        ELSE /\ r.result = None
                             /\ r.error = "not found"
                             /\ r.errarg = line.tid]_vars

\* C24 (as claimed): the Response to a health_check just answered has
\* status healthy and tasks_count the number of registered tasks.
C24_HealthCheckCount ==
    \A j \in Responses :
        (JustAnswered(j) /\ RequestOf(j).method = "health_check"
             /\ phase \in {"engine", "simple"}) =>
            /\ out[j].error = None
            /\ out[j].rstatus = "healthy"
            /\ out[j].rcount = Len(RegistryView)

\* C25 (as claimed): the first message of the output is a status_update and
\* it is the only one.
C25_StatusUpdateFirst ==
    Len(out) > 0 =>
        /\ out[1].method = "status_update"
        /\ Cardinality({i \in 1..Len(out) : out[i].method = "status_update"}) = 1

TaskNotifications == {"task_progress", "task_completed", "task_failed"}
\* The task on whose behalf message m was emitted: the task of the
\* background execution that emitted it, or the task the request being
\* handled names.
EmitterTask(m) ==
    IF m.exec = 0 THEN inp[m.line].tid
    ELSE IF m.exec \in 1..Len(execs) THEN execs[m.exec].task_id
    ELSE threads[m.exec].task_id

\* C26 (as claimed): every task notification, printed or queued, carries the
\* id of the task it was emitted for.
C26_NotificationTaskId ==
    /\ \A i \in 1..Len(out) :
           (IsNotification(out[i]) /\ out[i].method \in TaskNotifications)
               => out[i].taskId = EmitterTask(out[i])
    /\ \A i \in 1..Len(pend) :
           (IsNotification(pend[i]) /\ pend[i].method \in TaskNotifications)
               => pend[i].taskId = EmitterTask(pend[i])

\* A line with an id and no method: what a Response of the host looks like.
HostResponse(line) == line.kind = "req" /\ line.id # None /\ line.method = None
HostResponsesRead == Cardinality({n \in 1..Len(inp) : HostResponse(inp[n])})
\* The capability calls that have returned to the stages of executors 1..k:
\* a stage's call has returned once the chunk that made it has ended.
RECURSIVE CallsReturned(_)
CallsReturned(k) ==
    IF k = 0 THEN 0
    ELSE CallsReturned(k - 1)
         + (IF execs[k].stage < NStages THEN execs[k].stage ELSE NStages)

\* C27 (as claimed): no capability call has returned without a Response of
\* the host having been read for it.
C27_CallWaitsForHost == CallsReturned(Len(execs)) <= HostResponsesRead

\* A capability call has been sent to the host: its llm_request is printed.
CallSent == \E i \in 1..Len(out) : out[i].method = "llm_request"

\* C28 (as claimed): a Response of the host read after a capability call was
\* sent goes to the call's waiter, not to the dispatcher: the worker prints
\* no Response to it.
C28_HostResponseNotDispatched ==
    [][\A line \in LinesFirst :
          (inp' = Append(inp, line) /\ HostResponse(line) /\ CallSent) =>
              \A j \in 1..Len(out') :
                  (j > Len(out) /\ IsResponse(out'[j])) => out'[j].line # Len(inp')]_vars

\* C29: every request read that has an id and a method already has its
\* Response in the output (it was written before any later line was read),
\* and the Responses stand in the output in the order their requests were
\* read.
C29_ResponsesInRequestOrder ==
    /\ \A n \in 1..Len(inp) : WellFormed(inp[n]) => ResponsesTo(n) # {}
    /\ \A i, j \in Responses : i < j => out[i].line <= out[j].line

\* C29 witness: the Responses to two consecutive lines with a notification
\* of a background thread between them.
C29_Witness ==
    \E i, j, l \in 1..Len(out) :
        /\ i < j /\ j < l
        /\ IsResponse(out[i]) /\ IsResponse(out[l])
        /\ out[l].line = out[i].line + 1
        /\ IsNotification(out[j]) /\ out[j].exec # 0

\* What the stages of executor k have emitted, in order, printed or queued:
\* each stage's progress notification and its capability call.
StageEvents(k) ==
    SelectSeq(out \o pend,
              LAMBDA m : /\ m.exec = k
                         /\ \/ m.method = "llm_request"
                            \/ m.method = "task_progress" /\ m.status = "running")

\* C30: the stages of one pipeline run in the order of the crew's tasks
\* (planner, developer, tester, reviewer), each once and one after another:
\* the events of an executor are stage 1's notification, stage 1's call,
\* stage 2's notification, stage 2's call, and so on, at most four stages.
C30_StagesInOrder ==
    \A k \in 1..Len(execs) :
        LET ev == StageEvents(k)
        IN  /\ Len(ev) <= 2 * NStages
            /\ \A j \in 1..Len(ev) :
                   IF j % 2 = 1
                   THEN /\ ev[j].method = "task_progress"
                        /\ ev[j].taskId = Roles[(j + 1) \div 2]
                        /\ ev[j].progress = (((j + 1) \div 2) * 100) \div NStages
                   ELSE ev[j].method = "llm_request"

\* C30 witness: all four stages of an executor have run and their events
\* are printed.
C30_Witness ==
    \E k \in 1..Len(execs) :
        /\ execs[k].stage > NStages
        /\ Cardinality({i \in 1..Len(out) : out[i].exec = k /\ out[i].method = "llm_request"})
               = NStages

\* A progress value (in hundredths) that lies in [0.0, 1.0].
UnitProgress(x) == x \in 0..100

\* C31 (as claimed): every progress stored in a registry and every progress
\* of a task_progress notification, printed or queued, lies in [0.0, 1.0].
C31_ProgressInUnitInterval ==
    /\ \A i \in 1..Len(active_tasks) : UnitProgress(active_tasks[i].progress)
    /\ \A i \in 1..Len(objs) : UnitProgress(objs[i].progress)
    /\ \A i \in 1..Len(out) :
           out[i].method = "task_progress" => UnitProgress(out[i].progress)
    /\ \A i \in 1..Len(pend) :
           pend[i].method = "task_progress" => UnitProgress(pend[i].progress)

\* C32 (as claimed): a stop_task for a task that is already stopped leaves
\* the registry as it is and succeeds again, and a stop_task for a task
\* that is completed or failed does not change its status.
C32_StopIdempotent ==
    [][\A line \in LinesFirst :
          (/\ phase = "engine"
           /\ inp' = Append(inp, line)
           /\ line.kind = "req"
           /\ line.method = "stop_task"
           /\ Has(active_tasks, line.tid)) =>
              LET before == EngineStatus(line.tid)
              IN  /\ before = "stopped" =>
                         /\ active_tasks' = active_tasks
                         /\ out'[Len(out')].error = None
                  /\ before \in {"completed", "failed"} =>
                         Get(active_tasks', line.tid).status = before]_vars

EngineKeys == {active_tasks[i].key : i \in 1..Len(active_tasks)}
SimpleKeys == {tasks[i].key : i \in 1..Len(tasks)}
\* The step reads a shutdown request.
ReadsShutdown == Len(inp') = Len(inp) + 1 /\ IsShutdown(inp'[Len(inp')])

\* C33: a registered id stays registered in every step but the one that
\* handles shutdown, which disposes of the engine's registry.
C33_RegistryPermanent ==
    [][/\ ~ReadsShutdown => EngineKeys \subseteq EngineKeys'
       /\ SimpleKeys \subseteq SimpleKeys']_vars

\* C33 witness: a completed task and a stopped one are still registered
\* after a later request has been handled.
C33_Witness ==
    /\ \E i \in 1..Len(active_tasks) : active_tasks[i].status = "completed"
    /\ \E i \in 1..Len(active_tasks) : active_tasks[i].status = "stopped"
    /\ Len(inp) >= 3

\* C34 (as claimed): a task_progress notification that a background
\* execution prints has a progress above that of every task_progress it
\* printed before, and the progress stored in a task's record never
\* decreases while the record stays registered.
C34_ProgressMonotone ==
    [][/\ \A j \in 1..Len(out') :
              (j > Len(out) /\ out'[j].method = "task_progress" /\ out'[j].exec # 0) =>
                  \A i \in 1..Len(out) :
                      (out[i].method = "task_progress" /\ out[i].exec = out'[j].exec)
                          => out[i].progress < out'[j].progress
       /\ \A r \in 1..Len(objs) : objs'[r].progress >= objs[r].progress
       /\ \A i \in 1..Len(active_tasks) :
              (i <= Len(active_tasks') /\ ~Reregisters(active_tasks[i].key))
                  => active_tasks'[i].progress >= active_tasks[i].progress]_vars

\* The messages background execution k has emitted, in order.
EmittedSeq(k) == SelectSeq(out \o pend, LAMBDA m : m.exec = k)

\* C35: a background execution emits at most one terminal notification,
\* and nothing for its task after it.
C35_OneTerminalNotification ==
    \A k \in 1..(Len(threads) + Len(execs)) :
        LET ev == EmittedSeq(k)
        IN  \A i \in 1..Len(ev) : IsTerminal(ev[i]) => i = Len(ev)

\* C35 witness: a thread has ended after printing its progress
\* notifications and then task_completed.
C35_Witness ==
    \E k \in 1..Len(threads) :
        /\ threads[k].pc = "done"
        /\ Len(EmittedSeq(k)) = Len(SimpleProgress) + 1
        /\ EmittedSeq(k)[Len(EmittedSeq(k))].method = "task_completed"

\* The Responses written before position i that report a started execution:
\* SimpleIPCHandler answers {"task_id", "status": "started"}, the engine's
\* earlier start_task answers success without data.
ThreadStartsBefore(i) ==
    {j \in Responses : j < i /\ IsStart(RequestOf(j)) /\ out[j].rstatus = "started"}
ExecStartsBefore(i) ==
    {j \in Responses : /\ j < i /\ IsStart(RequestOf(j))
                       /\ out[j].error = None /\ out[j].rstatus = None}

\* C36: when the terminal notification of the k-th background execution is
\* written, the Responses to the k start_task requests that started the
\* first k executions are already written.
C36_StartResponseBeforeTerminal ==
    \A i \in 1..Len(out) :
        (IsTerminal(out[i]) /\ out[i].exec # 0) =>
            /\ out[i].exec \in 1..Len(threads) =>
                   Cardinality(ThreadStartsBefore(i)) >= out[i].exec
            /\ out[i].exec \in 1..Len(execs) =>
                   Cardinality(ExecStartsBefore(i)) >= out[i].exec

\* C36 witness: the second execution's task_completed is written, after the
\* Responses to both start_task requests.
C36_Witness ==
    \E i \in 1..Len(out) :
        /\ out[i].method = "task_completed"
        /\ out[i].exec = 2
        /\ Cardinality(ThreadStartsBefore(i)) = 2

\* C37: when a task_completed notification is written, the registry entry
\* of its task, if present, has status completed and the maximal progress
\* (1.0 in the engine, 100 in SimpleIPCHandler).  In the engine the queued
\* notifications are written when an iteration of the event loop begins,
\* before the chunk that runs in it: the registry they meet is the one the
\* step starts from.  A thread of SimpleIPCHandler writes its notification
\* in the step that sets the status.
C37_CompletedWhenNotified ==
    [][\A j \in 1..Len(out') :
           (j > Len(out) /\ out'[j].method = "task_completed") =>
               LET t == out'[j].taskId
               IN  /\ (phase = "engine" /\ Has(active_tasks, t)) =>
                          /\ Get(active_tasks, t).status = "completed"
                          /\ Get(active_tasks, t).progress = 100
                   /\ (phase = "simple" /\ Has(tasks', t)) =>
                          /\ objs'[Get(tasks', t).ref].status = "completed"
                          /\ objs'[Get(tasks', t).ref].progress = SimpleDone]_vars

\* The task ids a step may touch: the id named by the start_task or
\* stop_task it handles, or the id of the thread or executor that runs in it.
\* A step that handles any other line may touch none.
TouchedBy ==
    IF Len(inp') = Len(inp) + 1
    THEN LET line == inp'[Len(inp')]
         IN  IF line.kind = "req" /\ line.method \in {"start_task", "stop_task"}
             THEN {line.tid}
             ELSE {}
    ELSE {threads[k].task_id : k \in {n \in 1..Len(threads) : threads'[n] # threads[n]}}
         \cup {execs[k].task_id : k \in {n \in 1..Len(execs) : execs'[n] # execs[n]}}
\* The engine handles shutdown: dispose clears the registry.
Disposes ==
    /\ phase = "engine"
    /\ Len(inp') = Len(inp) + 1
    /\ IsShutdown(inp'[Len(inp')])

\* C38: a step leaves the registry entry (status, progress, message) of
\* every task it is not about as it was; a step that handles
\* get_task_status, list_tasks or health_check changes no entry at all.
C38_OtherTasksUntouched ==
    [][/\ ~Disposes =>
              \A i \in 1..Len(active_tasks) :
                  active_tasks[i].key \notin TouchedBy =>
                      /\ i <= Len(active_tasks')
                      /\ active_tasks'[i] = active_tasks[i]
       /\ \A i \in 1..Len(tasks) :
              tasks[i].key \notin TouchedBy =>
                  /\ i <= Len(tasks')
                  /\ tasks'[i] = tasks[i]
                  /\ objs'[tasks[i].ref] = objs[tasks[i].ref]
       /\ \A r \in 1..Len(objs) :
              objs[r].id \notin TouchedBy => objs'[r] = objs[r]]_vars

\* C38 witness: stop_task(t1) has just been handled with t1 and t2
\* registered; t1 is stopped and t2 is still running.
C38_Witness ==
    /\ phase = "engine"
    /\ inp # <<>>
    /\ inp[Len(inp)].method = "stop_task"
    /\ inp[Len(inp)].tid = "t1"
    /\ EngineStatus("t1") = "stopped"
    /\ EngineStatus("t2") = "running"

\* C39 (as claimed): every call of get_tools_for_agent, for the four agent
\* roles and for any other role, returns without raising a non-empty list
\* of tools that _initialize_tools registered.
C39_ToolSetNonEmpty ==
    \A c \in 1..Len(tool_sets) :
        LET r == tool_sets[c].returned
        IN  /\ ~r.raised
            /\ r.tools # <<>>
            /\ \A i \in 1..Len(r.tools) : r.tools[i] \in Registered

====
